---- MODULE Spec2Model ----
(***************************************************************************)
(* openrits: the category tree (materialized-path lineage), the property   *)
(* definitions inherited along it, the item values partitioned against     *)
(* them, and the availability sweep over rents.  Tables are modelled as    *)
(* functions from primary key to row; a lineage is the text the code       *)
(* stores, modelled as a sequence of characters.                           *)
(***************************************************************************)
EXTENDS Integers, Sequences, FiniteSets, TLC

VARIABLES
    ItemCategory,   \* pk -> [parent, lineage]           (models.py:57-66)
    seq,            \* last primary key the store handed out for ItemCategory
    ItemCategoryProperty,   \* pk -> [category]         (models.py:134-135)
    Item,           \* pk -> [amount, category]         (models.py:159-165)
    ItemPropertyValue,      \* set of [item, property]  (models.py:208-210)
    Rent,           \* pk -> [start, end]               (models.py:270-274)
    RentItem,       \* set of [rent, item, amount]      (models.py:313-316)
    ret,            \* the last call: its arguments, its outcome, the tables a query read
    inflight        \* writer -> the update_parent call it is inside, and where

catVars == <<ItemCategory, seq>>
propVars == <<ItemCategoryProperty, Item, ItemPropertyValue>>
rentVars == <<Rent, RentItem>>
vars == <<ItemCategory, seq, ItemCategoryProperty, Item, ItemPropertyValue,
          Rent, RentItem, ret, inflight>>

-----------------------------------------------------------------------------
(* Bounds of the model *)

\* most ItemCategory rows alive at once, in the specification of the tree
MaxCats == 4

\* most ItemCategoryProperty rows, in the specification of the properties
MaxProps == 3

\* most ItemCategoryProperty and Item rows, in the specification of the values
MaxValProps == 2
MaxItems == 1

\* the ItemCategory keys handed out in those two specifications
PropCatIds == {1, 2, 11}

\* in the specification of the availability: instants are 1..MaxTime, and
\* the most Rent rows, RentItem rows and Item rows
MaxTime == 4
MaxRents == 2
MaxRentItems == 2
MaxAvailItems == 2

\* the callers of update_parent running at once, each making one call, in
\* the specification of the concurrent reparents
MaxWriters == 2

\* the stock of an item and the amount of a RentItem, in that specification
Amounts == {0, 5}
Quantities == {1, 3}

\* The primary keys the store hands out, in increasing order.  AutoField keys
\* grow but need not be consecutive; this pool holds keys whose decimal texts
\* are prefixes and suffixes of one another, where substring matching on
\* ",pk," is at risk.
CatIds == {1, 2, 11, 12, 21}

\* parent = None
NULL == 0

-----------------------------------------------------------------------------
(* Text, as the code and the SQL functions compute it *)

Digit(n) ==
    CASE n = 0 -> "0" [] n = 1 -> "1" [] n = 2 -> "2" [] n = 3 -> "3"
      [] n = 4 -> "4" [] n = 5 -> "5" [] n = 6 -> "6" [] n = 7 -> "7"
      [] n = 8 -> "8" [] n = 9 -> "9"

\* f"{pk}": the decimal text of a primary key
RECURSIVE Str(_)
Str(n) == IF n < 10 THEN <<Digit(n)>> ELSE Str(n \div 10) \o <<Digit(n % 10)>>

\* f",{pk},"
Padded(pk) == <<",">> \o Str(pk) \o <<",">>

\* SQL StrIndex(s, sub): the 1-based position of the first occurrence, 0 if none
StrIndex(s, sub) ==
    LET hits == {i \in 1..(Len(s) - Len(sub) + 1) : SubSeq(s, i, i + Len(sub) - 1) = sub}
    IN  IF hits = {} THEN 0 ELSE CHOOSE i \in hits : \A j \in hits : i <= j

\* field__contains=sub (LIKE %sub%)
Contains(s, sub) == StrIndex(s, sub) > 0

\* SQL Substr(s, pos): from the 1-based position pos to the end
Substr(s, pos) == SubSeq(s, pos, Len(s))

\* The orders in which the store may return the rows S of a queryset that has
\* no order_by (no model here declares Meta.ordering).
RECURSIVE RowOrders(_)
RowOrders(S) ==
    IF S = {} THEN {<< >>}
    ELSE UNION {{<<x>> \o r : r \in RowOrders(S \ {x})} : x \in S}

Range(r) == {r[i] : i \in DOMAIN r}

-----------------------------------------------------------------------------
(* ItemCategory.Manager *)

\* mutant: the key matched without its leading delimiter
filter_descendants_unpadded(tbl, category) ==
    {d \in DOMAIN tbl : Contains(tbl[d].lineage, Str(category) \o <<",">>)}

\* filter(lineage__contains=f",{category.pk},") over the table tbl
filter_descendants(tbl, category) ==
    {d \in DOMAIN tbl : Contains(tbl[d].lineage, Padded(category))}

\* alias(chrpk=","+id+",", ancestors=category.lineage).filter(ancestors__contains=chrpk)
filter_ancestors(tbl, category) ==
    {a \in DOMAIN tbl : Contains(tbl[category].lineage, Padded(a))}

\* mutant: the parent's own lineage left out
new_lineage_parent_only(tbl, new_parent) ==
    IF new_parent = NULL THEN <<",">> ELSE Padded(new_parent)

\* what update_parent computes before it checks anything
new_lineage(tbl, new_parent) ==
    IF new_parent = NULL THEN <<",">>
    ELSE tbl[new_parent].lineage \o Str(new_parent) \o <<",">>

\* mutant: only the descendant check, no self check
update_parent_raises_no_self(tbl, category, new_parent) ==
    /\ new_parent # NULL
    /\ new_parent \in filter_descendants(tbl, category)

\* the two ValueErrors of update_parent
update_parent_raises(tbl, category, new_parent) ==
    /\ new_parent # NULL
    /\ \/ new_parent = category
       \/ new_parent \in filter_descendants(tbl, category)

\* the first UPDATE: the category's own row
update_own_row(tbl, category, new_parent) ==
    [tbl EXCEPT ![category] =
        [parent |-> new_parent, lineage |-> new_lineage(tbl, new_parent)]]

\* mutant: the rows to rewrite matched without the leading delimiter
update_descendants_unpadded(tbl, category, lin) ==
    LET descendantsLineage == lin \o Str(category) \o <<",">>
        searchStr == Padded(category)
    IN  [d \in DOMAIN tbl |->
            IF Contains(tbl[d].lineage, Str(category) \o <<",">>)
            THEN [tbl[d] EXCEPT !.lineage =
                    descendantsLineage \o
                    Substr(tbl[d].lineage,
                           StrIndex(tbl[d].lineage, searchStr) + Len(searchStr))]
            ELSE tbl[d]]

\* mutant: the lineages of the descendants left as they were
update_descendants_skipped(tbl, category, lin) == tbl

\* mutant: the suffix cut one character early, keeping the delimiter
update_descendants_off_by_one(tbl, category, lin) ==
    LET descendantsLineage == lin \o Str(category) \o <<",">>
        searchStr == Padded(category)
    IN  [d \in DOMAIN tbl |->
            IF d \in filter_descendants(tbl, category)
            THEN [tbl[d] EXCEPT !.lineage =
                    descendantsLineage \o
                    Substr(tbl[d].lineage,
                           StrIndex(tbl[d].lineage, searchStr) + Len(searchStr) - 1)]
            ELSE tbl[d]]

\* the second UPDATE, over filter_descendants evaluated on the table the first
\* UPDATE left: lineage = descendantsLineage + Substr(lineage, StrIndex + len)
update_descendants(tbl, category, lin) ==
    LET descendantsLineage == lin \o Str(category) \o <<",">>
        searchStr == Padded(category)
    IN  [d \in DOMAIN tbl |->
            IF d \in filter_descendants(tbl, category)
            THEN [tbl[d] EXCEPT !.lineage =
                    descendantsLineage \o
                    Substr(tbl[d].lineage,
                           StrIndex(tbl[d].lineage, searchStr) + Len(searchStr))]
            ELSE tbl[d]]

\* the table update_parent leaves when it does not raise
update_parent(tbl, category, new_parent) ==
    update_descendants(update_own_row(tbl, category, new_parent),
                       category, new_lineage(tbl, new_parent))

\* the first UPDATE with the lineage the caller computed from the objects it
\* holds: filter(pk=category.pk).update(parent=new_parent_id, lineage=new_lineage)
write_own_row(tbl, category, new_parent, lin) ==
    [tbl EXCEPT ![category] = [parent |-> new_parent, lineage |-> lin]]

\* Meta.constraints of ItemCategory
id_not_equal_parent(tbl) == \A c \in DOMAIN tbl : tbl[c].parent # c
id_not_in_lineage(tbl) == \A c \in DOMAIN tbl : ~Contains(tbl[c].lineage, Padded(c))

\* mutant: only the row itself is collected, no row that references it
collect_own_only(tbl, doomed) == doomed

\* category.delete(): the rows collected along parent = ForeignKey("self",
\* on_delete=CASCADE), the rows that reference a collected row included
RECURSIVE collect(_, _)
collect(tbl, doomed) ==
    LET more == {d \in DOMAIN tbl : tbl[d].parent \in doomed} \ doomed
    IN  IF more = {} THEN doomed ELSE collect(tbl, doomed \cup more)

-----------------------------------------------------------------------------
(* ItemCategoryProperty.Manager, ItemPropertyValue.Manager *)

\* mutant: the category's own key left out of the text searched
ItemCategoryProperty_filter_relevant_for_lineage_only(cats, props, category) ==
    {p \in DOMAIN props : Contains(cats[category].lineage, Padded(props[p].category))}

\* alias(chrpk=","+category_id+",", categories=category.lineage+category.pk+",")
\*   .filter(categories__contains=chrpk)
ItemCategoryProperty_filter_relevant_for(cats, props, category) ==
    LET categories == cats[category].lineage \o Str(category) \o <<",">>
    IN  {p \in DOMAIN props : Contains(categories, Padded(props[p].category))}

\* filter_relevant_for(item.category) reads item.category.lineage: an
\* AttributeError when item.category is None
values_raise(items, item) == items[item].category = NULL

\* filter(item=item).filter(property__in=defined_properties)
ItemPropertyValue_filter_relevant_for(cats, props, items, vals, item) ==
    LET defined_properties ==
            ItemCategoryProperty_filter_relevant_for(cats, props, items[item].category)
    IN  {v \in vals : v.item = item /\ v.property \in defined_properties}

\* mutant: only the definitions of the item's own category count as defined
ItemPropertyValue_filter_obsolete_for_own_only(cats, props, items, vals, item) ==
    {v \in vals : v.item = item /\ props[v.property].category # items[item].category}

\* filter(item=item).exclude(property__in=defined_properties)
ItemPropertyValue_filter_obsolete_for(cats, props, items, vals, item) ==
    LET defined_properties ==
            ItemCategoryProperty_filter_relevant_for(cats, props, items[item].category)
    IN  {v \in vals : v.item = item /\ v.property \notin defined_properties}

-----------------------------------------------------------------------------
(* Item.Manager.get_available_amount *)

\* mutant: the rents that ended before the window are kept
coliding_rents_no_end_gte(rents, rentitems, item, start, end) ==
    {r \in DOMAIN rents :
        /\ rents[r].start <= end
        /\ \E ri \in rentitems : ri.rent = r /\ ri.item = item}

\* Rent.objects.filter(start__lte=end, end__gte=start).filter(rentitem__item=item)
coliding_rents(rents, rentitems, item, start, end) ==
    {r \in DOMAIN rents :
        /\ rents[r].start <= end
        /\ rents[r].end >= start
        /\ \E ri \in rentitems : ri.rent = r /\ ri.item = item}

RECURSIVE SumAmounts(_)
SumAmounts(S) ==
    IF S = {} THEN 0
    ELSE LET ri == CHOOSE x \in S : TRUE IN ri.amount + SumAmounts(S \ {ri})

\* annotate(amount=Sum(F("rentitem__amount"), filter=Q(rentitem__item=item)))
rent_amount(rentitems, item, r) ==
    SumAmounts({ri \in rentitems : ri.rent = r /\ ri.item = item})

\* the loop that appends (rent.start, rent.amount), (rent.end, -rent.amount)
\* for the rents in the order the store returned them
RECURSIVE points_of_interest(_, _, _, _)
points_of_interest(rents, rentitems, item, order) ==
    IF order = << >> THEN << >>
    ELSE LET r == Head(order)
             q == rent_amount(rentitems, item, r)
         IN  <<[t |-> rents[r].start, d |-> q], [t |-> rents[r].end, d |-> 0 - q]>>
               \o points_of_interest(rents, rentitems, item, Tail(order))

\* mutant: a point placed before the points of its own instant
InsertFirst(done, e) ==
    LET k == Cardinality({i \in DOMAIN done : done[i].t < e.t})
    IN  SubSeq(done, 1, k) \o <<e>> \o SubSeq(done, k + 1, Len(done))

\* a point placed after every point that is not later than it
InsertLast(done, e) ==
    LET k == Cardinality({i \in DOMAIN done : done[i].t <= e.t})
    IN  SubSeq(done, 1, k) \o <<e>> \o SubSeq(done, k + 1, Len(done))

\* sorted(points_of_interest, key=lambda e: e[0]): stable, so points of the
\* same instant keep the order in which they were appended
RECURSIVE sorted(_)
sorted(poi) ==
    IF poi = << >> THEN << >>
    ELSE InsertLast(sorted(SubSeq(poi, 1, Len(poi) - 1)), poi[Len(poi)])

Min(a, b) == IF a <= b THEN a ELSE b

\* mutant: the amount of a point added to the stock instead of taken from it
RECURSIVE sweep_added(_, _, _)
sweep_added(poi, storage_amount, min_amount) ==
    IF poi = << >> THEN min_amount
    ELSE sweep_added(Tail(poi), storage_amount + Head(poi).d,
                     Min(min_amount, storage_amount + Head(poi).d))

\* for poi in points_of_interest: storage_amount -= poi[1];
\*                                min_amount = min(min_amount, storage_amount)
RECURSIVE sweep(_, _, _)
sweep(poi, storage_amount, min_amount) ==
    IF poi = << >> THEN min_amount
    ELSE sweep(Tail(poi), storage_amount - Head(poi).d,
               Min(min_amount, storage_amount - Head(poi).d))

\* mutant: no early return for an item without stock
get_available_amount_unguarded(items, rents, rentitems, item, start, end, order) ==
    IF order = << >> THEN items[item].amount
    ELSE sweep(sorted(points_of_interest(rents, rentitems, item, order)),
               items[item].amount, items[item].amount)

\* get_available_amount(item, start, end), the coliding rents returned in
\* the given order
get_available_amount(items, rents, rentitems, item, start, end, order) ==
    IF items[item].amount <= 0 THEN 0
    ELSE IF order = << >> THEN items[item].amount
    ELSE sweep(sorted(points_of_interest(rents, rentitems, item, order)),
               items[item].amount, items[item].amount)

-----------------------------------------------------------------------------
(* The record of the last call *)

\* every stored row
Tables ==
    [cat |-> ItemCategory, prop |-> ItemCategoryProperty, item |-> Item,
     val |-> ItemPropertyValue, rent |-> Rent, rentitem |-> RentItem]

NoRows == << >>
NoTable == << >>

Call(op, a, b, raised, rows, pre) ==
    [op |-> op, a |-> a, b |-> b, raised |-> raised, rows |-> rows, pre |-> pre]

\* a call of get_available_amount, the rows it iterated and the integer returned
AvailCall(item, start, end, rows, result) ==
    [op |-> "get_available_amount", a |-> item, b |-> NULL, raised |-> FALSE,
     rows |-> rows, pre |-> Tables, start |-> start, end |-> end, result |-> result]

\* the callers that may be inside update_parent at the same time
Writers == 1..MaxWriters

\* a writer that has not called update_parent yet, and one whose call is over
Idle == [pc |-> "idle", category |-> NULL, new_parent |-> NULL, new_lineage |-> << >>]
Done == [pc |-> "done", category |-> NULL, new_parent |-> NULL, new_lineage |-> << >>]

-----------------------------------------------------------------------------
(* Actions *)

Init ==
    /\ ItemCategory = << >>
    /\ seq = 0
    /\ ItemCategoryProperty = << >>
    /\ Item = << >>
    /\ ItemPropertyValue = {}
    /\ Rent = << >>
    /\ RentItem = {}
    /\ ret = Call("init", NULL, NULL, FALSE, NoRows, NoTable)
    /\ inflight = [w \in Writers |-> Idle]

\* ItemCategory.objects.create(name=..) for a root, or
\* create(parent=p, lineage=f"{p.lineage}{p.pk},") for a child
CreateCategory(pk, p) ==
    /\ pk > seq
    /\ ItemCategory' =
         [c \in DOMAIN ItemCategory \cup {pk} |->
            IF c = pk
            THEN [parent |-> p, lineage |-> new_lineage(ItemCategory, p)]
            ELSE ItemCategory[c]]
    /\ seq' = pk
    /\ ret' = Call("create", NULL, NULL, FALSE, NoRows, NoTable)
    /\ UNCHANGED <<propVars, rentVars, inflight>>

\* ItemCategory.objects.update_parent(category, new_parent), both arguments
\* loaded from the store for the call
UpdateParent(category, new_parent) ==
    /\ IF update_parent_raises(ItemCategory, category, new_parent)
       THEN /\ ItemCategory' = ItemCategory
            /\ ret' = Call("update_parent", category, new_parent, TRUE, NoRows, NoTable)
       ELSE /\ ItemCategory' = update_parent(ItemCategory, category, new_parent)
            /\ ret' = Call("update_parent", category, new_parent, FALSE, NoRows, NoTable)
    /\ UNCHANGED <<seq, propVars, rentVars, inflight>>

\* list(ItemCategory.objects.filter_descendants(category))
FilterDescendants(category) ==
    /\ \E rows \in RowOrders(filter_descendants(ItemCategory, category)) :
          ret' = Call("filter_descendants", category, NULL, FALSE, rows, Tables)
    /\ UNCHANGED <<catVars, propVars, rentVars, inflight>>

\* list(ItemCategory.objects.filter_ancestors(category))
FilterAncestors(category) ==
    /\ \E rows \in RowOrders(filter_ancestors(ItemCategory, category)) :
          ret' = Call("filter_ancestors", category, NULL, FALSE, rows, Tables)
    /\ UNCHANGED <<catVars, propVars, rentVars, inflight>>

\* ItemCategoryProperty.objects.create(category=cat)
CreateProperty(category) ==
    LET pk == Cardinality(DOMAIN ItemCategoryProperty) + 1
    IN  /\ ItemCategoryProperty' =
             [q \in DOMAIN ItemCategoryProperty \cup {pk} |->
                IF q = pk THEN [category |-> category] ELSE ItemCategoryProperty[q]]
        /\ ret' = Call("create_property", NULL, NULL, FALSE, NoRows, NoTable)
        /\ UNCHANGED <<catVars, Item, ItemPropertyValue, rentVars, inflight>>

\* Item.objects.create(amount=amount, category=cat), the category optional,
\* under item_amount_gte_0
CreateItem(amount, category) ==
    LET pk == Cardinality(DOMAIN Item) + 1
    IN  /\ amount >= 0
        /\ Item' =
             [i \in DOMAIN Item \cup {pk} |->
                IF i = pk THEN [amount |-> amount, category |-> category] ELSE Item[i]]
        /\ ret' = Call("create_item", NULL, NULL, FALSE, NoRows, NoTable)
        /\ UNCHANGED <<catVars, ItemCategoryProperty, ItemPropertyValue, rentVars, inflight>>

\* item.category = cat; item.save()
SetItemCategory(item, category) ==
    /\ Item[item].category # category
    /\ Item' = [Item EXCEPT ![item].category = category]
    /\ ret' = Call("set_item_category", item, NULL, FALSE, NoRows, NoTable)
    /\ UNCHANGED <<catVars, ItemCategoryProperty, ItemPropertyValue, rentVars, inflight>>

\* ItemPropertyValue.objects.create(item=item, property=prop), under
\* unique_item_property
CreateValue(item, property) ==
    /\ [item |-> item, property |-> property] \notin ItemPropertyValue
    /\ ItemPropertyValue' = ItemPropertyValue \cup {[item |-> item, property |-> property]}
    /\ ret' = Call("create_value", NULL, NULL, FALSE, NoRows, NoTable)
    /\ UNCHANGED <<catVars, ItemCategoryProperty, Item, rentVars, inflight>>

\* list(ItemCategoryProperty.objects.filter_relevant_for(category))
PropertiesRelevantFor(category) ==
    /\ \E rows \in RowOrders(ItemCategoryProperty_filter_relevant_for(
                                ItemCategory, ItemCategoryProperty, category)) :
          ret' = Call("properties_relevant_for", category, NULL, FALSE, rows, Tables)
    /\ UNCHANGED <<catVars, propVars, rentVars, inflight>>

\* list(ItemPropertyValue.objects.filter_relevant_for(item))
ValuesRelevantFor(item) ==
    /\ IF values_raise(Item, item)
       THEN ret' = Call("values_relevant_for", item, NULL, TRUE, NoRows, Tables)
       ELSE \E rows \in RowOrders(ItemPropertyValue_filter_relevant_for(
                  ItemCategory, ItemCategoryProperty, Item, ItemPropertyValue, item)) :
               ret' = Call("values_relevant_for", item, NULL, FALSE, rows, Tables)
    /\ UNCHANGED <<catVars, propVars, rentVars, inflight>>

\* list(ItemPropertyValue.objects.filter_obsolete_for(item))
ValuesObsoleteFor(item) ==
    /\ IF values_raise(Item, item)
       THEN ret' = Call("values_obsolete_for", item, NULL, TRUE, NoRows, Tables)
       ELSE \E rows \in RowOrders(ItemPropertyValue_filter_obsolete_for(
                  ItemCategory, ItemCategoryProperty, Item, ItemPropertyValue, item)) :
               ret' = Call("values_obsolete_for", item, NULL, FALSE, rows, Tables)
    /\ UNCHANGED <<catVars, propVars, rentVars, inflight>>

\* Rent.objects.create(start=start, end=end), under start_lte_end
CreateRent(start, end) ==
    LET pk == Cardinality(DOMAIN Rent) + 1
    IN  /\ start <= end
        /\ Rent' = [r \in DOMAIN Rent \cup {pk} |->
                      IF r = pk THEN [start |-> start, end |-> end] ELSE Rent[r]]
        /\ ret' = Call("create_rent", NULL, NULL, FALSE, NoRows, NoTable)
        /\ UNCHANGED <<catVars, propVars, RentItem, inflight>>

\* RentItem.objects.create(rent=rent, item=item, amount=amount), under
\* rent_amount_gt_0 and unique_item_rent
CreateRentItem(rent, item, amount) ==
    /\ amount > 0
    /\ \A ri \in RentItem : ~(ri.rent = rent /\ ri.item = item)
    /\ RentItem' = RentItem \cup {[rent |-> rent, item |-> item, amount |-> amount]}
    /\ ret' = Call("create_rentitem", NULL, NULL, FALSE, NoRows, NoTable)
    /\ UNCHANGED <<catVars, propVars, Rent, inflight>>

\* Item.objects.get_available_amount(item, start, end)
GetAvailableAmount(item, start, end) ==
    /\ \E order \in RowOrders(coliding_rents(Rent, RentItem, item, start, end)) :
          ret' = AvailCall(item, start, end, order,
                           get_available_amount(Item, Rent, RentItem, item, start, end, order))
    /\ UNCHANGED <<catVars, propVars, rentVars, inflight>>

\* category.delete(): the category and the rows collected with it are
\* deleted; their property definitions and the values of those go with them
\* (on_delete=CASCADE), items of a deleted category keep their row with
\* category = None (on_delete=SET_NULL).  delete() returns the number of
\* rows deleted, recorded as b.
DeleteCategory(category) ==
    LET doomed == collect(ItemCategory, {category})
        doomedProps == {q \in DOMAIN ItemCategoryProperty :
                           ItemCategoryProperty[q].category \in doomed}
    IN  /\ ItemCategory' = [c \in DOMAIN ItemCategory \ doomed |-> ItemCategory[c]]
        /\ ItemCategoryProperty' =
              [q \in DOMAIN ItemCategoryProperty \ doomedProps |-> ItemCategoryProperty[q]]
        /\ ItemPropertyValue' = {v \in ItemPropertyValue : v.property \notin doomedProps}
        /\ Item' = [i \in DOMAIN Item |->
                      IF Item[i].category \in doomed
                      THEN [Item[i] EXCEPT !.category = NULL]
                      ELSE Item[i]]
        /\ ret' = Call("delete", category,
                       Cardinality(doomed) + Cardinality(doomedProps)
                         + Cardinality({v \in ItemPropertyValue : v.property \in doomedProps}),
                       FALSE, NoRows, NoTable)
        /\ UNCHANGED <<seq, rentVars, inflight>>

-----------------------------------------------------------------------------
(* update_parent statement by statement, for callers that run at once.  No *)
(* transaction is opened in update_parent, so each UPDATE is committed on  *)
(* its own and the store checks the constraints of the rows it writes.     *)

constraints_hold(tbl) == id_not_equal_parent(tbl) /\ id_not_in_lineage(tbl)

\* the caller loads category and new_parent and enters update_parent, which
\* computes new_lineage from the new_parent object it was given
BeginUpdateParent(w, category, new_parent) ==
    /\ inflight[w].pc = "idle"
    /\ inflight' = [inflight EXCEPT ![w] =
            [pc |-> "check", category |-> category, new_parent |-> new_parent,
             new_lineage |-> new_lineage(ItemCategory, new_parent)]]
    /\ UNCHANGED <<catVars, propVars, rentVars, ret>>

\* the self check and the check_qs query, read from the store as it is now
CheckUpdateParent(w) ==
    LET call == inflight[w]
    IN  /\ call.pc = "check"
        /\ IF update_parent_raises(ItemCategory, call.category, call.new_parent)
           THEN /\ inflight' = [inflight EXCEPT ![w] = Done]
                /\ ret' = Call("update_parent", call.category, call.new_parent,
                               TRUE, NoRows, NoTable)
           ELSE /\ inflight' = [inflight EXCEPT ![w].pc = "own"]
                /\ ret' = ret
        /\ UNCHANGED <<catVars, propVars, rentVars>>

\* the first UPDATE; an IntegrityError leaves the table and ends the call
UpdateOwnRow(w) ==
    LET call == inflight[w]
        written == write_own_row(ItemCategory, call.category, call.new_parent,
                                 call.new_lineage)
    IN  /\ call.pc = "own"
        /\ IF constraints_hold(written)
           THEN /\ ItemCategory' = written
                /\ inflight' = [inflight EXCEPT ![w].pc = "descendants"]
                /\ ret' = ret
           ELSE /\ ItemCategory' = ItemCategory
                /\ inflight' = [inflight EXCEPT ![w] = Done]
                /\ ret' = Call("update_parent", call.category, call.new_parent,
                               TRUE, NoRows, NoTable)
        /\ UNCHANGED <<seq, propVars, rentVars>>

\* the second UPDATE; an IntegrityError leaves the table as the first left it
UpdateDescendants(w) ==
    LET call == inflight[w]
        written == update_descendants(ItemCategory, call.category, call.new_lineage)
    IN  /\ call.pc = "descendants"
        /\ IF constraints_hold(written)
           THEN /\ ItemCategory' = written
                /\ ret' = Call("update_parent", call.category, call.new_parent,
                               FALSE, NoRows, NoTable)
           ELSE /\ ItemCategory' = ItemCategory
                /\ ret' = Call("update_parent", call.category, call.new_parent,
                               TRUE, NoRows, NoTable)
        /\ inflight' = [inflight EXCEPT ![w] = Done]
        /\ UNCHANGED <<seq, propVars, rentVars>>

CatOrNull == DOMAIN ItemCategory \cup {NULL}

Instants == 1..MaxTime

\* the category tree alone
Next ==
    \/ \E pk \in CatIds : \E p \in CatOrNull :
          Cardinality(DOMAIN ItemCategory) < MaxCats /\ CreateCategory(pk, p)
    \/ \E c \in DOMAIN ItemCategory : \E p \in CatOrNull : UpdateParent(c, p)
    \/ \E c \in DOMAIN ItemCategory : FilterDescendants(c)
    \/ \E c \in DOMAIN ItemCategory : FilterAncestors(c)

Spec == Init /\ [][Next]_vars

\* the tree with the property definitions of its categories
NextProps ==
    \/ \E pk \in PropCatIds : \E p \in CatOrNull : CreateCategory(pk, p)
    \/ \E c \in DOMAIN ItemCategory : \E p \in CatOrNull : UpdateParent(c, p)
    \/ \E c \in DOMAIN ItemCategory :
          Cardinality(DOMAIN ItemCategoryProperty) < MaxProps /\ CreateProperty(c)
    \/ \E c \in DOMAIN ItemCategory : PropertiesRelevantFor(c)

SpecProps == Init /\ [][NextProps]_vars

\* the tree, the property definitions, and items with their values
NextValues ==
    \/ \E pk \in PropCatIds : \E p \in CatOrNull : CreateCategory(pk, p)
    \/ \E c \in DOMAIN ItemCategory : \E p \in CatOrNull : UpdateParent(c, p)
    \/ \E c \in DOMAIN ItemCategory :
          Cardinality(DOMAIN ItemCategoryProperty) < MaxValProps /\ CreateProperty(c)
    \/ \E c \in CatOrNull : Cardinality(DOMAIN Item) < MaxItems /\ CreateItem(0, c)
    \/ \E i \in DOMAIN Item : \E c \in CatOrNull : SetItemCategory(i, c)
    \/ \E i \in DOMAIN Item : \E q \in DOMAIN ItemCategoryProperty : CreateValue(i, q)
    \/ \E i \in DOMAIN Item : ValuesRelevantFor(i)
    \/ \E i \in DOMAIN Item : ValuesObsoleteFor(i)

SpecValues == Init /\ [][NextValues]_vars

\* items, rents of them, and the availability asked for a window
NextAvail ==
    \/ \E a \in Amounts : Cardinality(DOMAIN Item) < MaxAvailItems /\ CreateItem(a, NULL)
    \/ \E s, e \in Instants : Cardinality(DOMAIN Rent) < MaxRents /\ CreateRent(s, e)
    \/ \E r \in DOMAIN Rent : \E i \in DOMAIN Item : \E q \in Quantities :
          Cardinality(RentItem) < MaxRentItems /\ CreateRentItem(r, i, q)
    \/ \E i \in DOMAIN Item : \E s, e \in Instants :
          s <= e /\ GetAvailableAmount(i, s, e)

SpecAvail == Init /\ [][NextAvail]_vars

\* the tree with deletions
NextDelete ==
    \/ \E pk \in CatIds : \E p \in CatOrNull :
          Cardinality(DOMAIN ItemCategory) < MaxCats /\ CreateCategory(pk, p)
    \/ \E c \in DOMAIN ItemCategory : \E p \in CatOrNull : UpdateParent(c, p)
    \/ \E c \in DOMAIN ItemCategory : DeleteCategory(c)

SpecDelete == Init /\ [][NextDelete]_vars

\* the tree under callers of update_parent whose statements interleave
NextConc ==
    \/ \E pk \in PropCatIds : \E p \in CatOrNull : CreateCategory(pk, p)
    \/ \E w \in Writers : \E c \in DOMAIN ItemCategory : \E p \in CatOrNull :
          BeginUpdateParent(w, c, p)
    \/ \E w \in Writers : CheckUpdateParent(w)
    \/ \E w \in Writers : UpdateOwnRow(w)
    \/ \E w \in Writers : UpdateDescendants(w)

SpecConc == Init /\ [][NextConc]_vars

-----------------------------------------------------------------------------
(* The tree read from the parent links alone, for stating the properties *)

Children(tbl, S) == {d \in DOMAIN tbl : tbl[d].parent \in S}

\* every category reached from c by following child links, c excluded unless
\* a cycle leads back to it
RECURSIVE WalkChildren(_, _, _)
WalkChildren(tbl, frontier, seen) ==
    LET more == Children(tbl, frontier) \ seen
    IN  IF more = {} THEN seen ELSE WalkChildren(tbl, more, seen \cup more)

ChildWalk(tbl, c) == WalkChildren(tbl, {c}, {})

\* the path from the root of c's tree down to c's parent, by parent links
RECURSIVE PathAbove(_, _, _)
PathAbove(tbl, c, fuel) ==
    IF fuel = 0 \/ c \notin DOMAIN tbl \/ tbl[c].parent = NULL THEN << >>
    ELSE Append(PathAbove(tbl, tbl[c].parent, fuel - 1), tbl[c].parent)

RootPath(tbl, c) == PathAbove(tbl, c, Cardinality(DOMAIN tbl))

IsPrefix(p, s) == Len(p) <= Len(s) /\ SubSeq(s, 1, Len(p)) = p

\* the lineage the parent link of c calls for
LineageOfParent(tbl, c) ==
    IF tbl[c].parent = NULL THEN <<",">>
    ELSE tbl[tbl[c].parent].lineage \o Str(tbl[c].parent) \o <<",">>

Reparented == ret.op = "update_parent" /\ ~ret.raised
Rejected == ret.op = "update_parent" /\ ret.raised

-----------------------------------------------------------------------------
(* C1: after a reparent(C, P) that completed, C has parent P and lineage   *)
(* newLineage ("," for no parent, else P's lineage + P's id + ","), every  *)
(* category that was a descendant of C before the call has lineage         *)
(* newLineage + C.id + "," + its old suffix past ",C.id,", and none keeps  *)
(* the old prefix when the prefix changed.                                 *)
C1_ReparentRewritesSubtree ==
    [][(ret'.op = "update_parent" /\ ~ret'.raised) =>
        LET C == ret'.a
            P == ret'.b
            pre == ItemCategory
            post == ItemCategory'
            newLineage == IF P = NULL THEN <<",">>
                          ELSE post[P].lineage \o Str(P) \o <<",">>
            oldPrefix == pre[C].lineage \o Str(C) \o <<",">>
            newPrefix == newLineage \o Str(C) \o <<",">>
        IN  /\ post[C].parent = P
            /\ post[C].lineage = newLineage
            /\ P # NULL => post[P].lineage = pre[P].lineage
            /\ \A D \in ChildWalk(pre, C) :
                 /\ IsPrefix(oldPrefix, pre[D].lineage)
                 /\ post[D].lineage =
                      newPrefix \o Substr(pre[D].lineage, Len(oldPrefix) + 1)
                 /\ newPrefix # oldPrefix => ~IsPrefix(oldPrefix, post[D].lineage)
    ]_vars

\* a subtree two levels deep has been moved from one category under another
C1_Witness ==
    /\ Reparented
    /\ ret.b # NULL
    /\ \E D \in ChildWalk(ItemCategory, ret.a) :
         /\ ItemCategory[D].parent # ret.a
         /\ ItemCategory[D].lineage =
              ItemCategory[ret.b].lineage \o Str(ret.b) \o Padded(ret.a)
                \o Str(ItemCategory[D].parent) \o <<",">>

-----------------------------------------------------------------------------
(* C2: in every state reached by creations and completed or rejected       *)
(* reparents, a category with parent P has lineage lineage(P) + P.id + ",",*)
(* a category without parent has lineage ",", and no category is its own   *)
(* parent or appears in its own lineage.                                   *)
C2_LineageConsistent ==
    /\ \A c \in DOMAIN ItemCategory :
         /\ ItemCategory[c].parent # NULL => ItemCategory[c].parent \in DOMAIN ItemCategory
         /\ ItemCategory[c].lineage = LineageOfParent(ItemCategory, c)
    /\ id_not_equal_parent(ItemCategory)
    /\ id_not_in_lineage(ItemCategory)

\* a completed reparent left a tree three levels deep
C2_Witness ==
    /\ Reparented
    /\ ret.b # NULL
    /\ \E c \in DOMAIN ItemCategory :
         /\ Len(RootPath(ItemCategory, c)) >= 2
         /\ ItemCategory[c].parent = ret.a

-----------------------------------------------------------------------------
(* C3: reparent(C, N) raises whenever N is C or a descendant of C, and     *)
(* then no category's parent or lineage differs from before the call.      *)
C3_CycleRejected ==
    [][ret'.op = "update_parent" =>
        /\ (ret'.b # NULL /\ (ret'.b = ret'.a \/ ret'.b \in ChildWalk(ItemCategory, ret'.a)))
              => ret'.raised
        /\ ret'.raised => ItemCategory' = ItemCategory
    ]_vars

\* a reparent under a grandchild was rejected
C3_Witness ==
    /\ Rejected
    /\ ret.b # ret.a
    /\ ItemCategory[ret.b].parent # ret.a
    /\ ret.b \in ChildWalk(ItemCategory, ret.a)

-----------------------------------------------------------------------------
(* C7: descendantsOf(C) never contains C and is exactly the set reached by *)
(* following child links from C; it is empty for a leaf.                   *)
C7_DescendantsExact ==
    /\ \A c \in DOMAIN ItemCategory :
         /\ c \notin filter_descendants(ItemCategory, c)
         /\ filter_descendants(ItemCategory, c) = ChildWalk(ItemCategory, c)
         /\ Children(ItemCategory, {c}) = {} => filter_descendants(ItemCategory, c) = {}
    /\ ret.op = "filter_descendants" =>
         /\ Range(ret.rows) = ChildWalk(ItemCategory, ret.a)
         /\ Len(ret.rows) = Cardinality(ChildWalk(ItemCategory, ret.a))

\* descendants two levels deep were returned, after a reparent, while a
\* category whose key text contains the argument's is not among them
C7_Witness ==
    /\ ret.op = "filter_descendants"
    /\ \E d \in Range(ret.rows) : ItemCategory[d].parent # ret.a
    /\ \E o \in DOMAIN ItemCategory :
         /\ o \notin Range(ret.rows)
         /\ o # ret.a
         /\ Contains(Str(o), Str(ret.a))

-----------------------------------------------------------------------------
(* C8: ancestorsOf(C) returns the categories on the path from the root to  *)
(* C's parent, as a sequence root-first and parent-last, whatever the      *)
(* order in which they were created.                                       *)
C8_AncestorsRootFirst ==
    ret.op = "filter_ancestors" => ret.rows = RootPath(ItemCategory, ret.a)

-----------------------------------------------------------------------------
(* C6: for every item with a category, in every state reached by category  *)
(* creations, reparents and item category reassignments, definedValues and *)
(* obsoleteValues are disjoint and together are exactly the values of the  *)
(* item; and both queries leave every stored row as it was.                *)
C6_ValuesPartition ==
    /\ \A i \in DOMAIN Item :
         Item[i].category # NULL =>
            LET defined == ItemPropertyValue_filter_relevant_for(
                    ItemCategory, ItemCategoryProperty, Item, ItemPropertyValue, i)
                obsolete == ItemPropertyValue_filter_obsolete_for(
                    ItemCategory, ItemCategoryProperty, Item, ItemPropertyValue, i)
            IN  /\ defined \cap obsolete = {}
                /\ defined \cup obsolete = {v \in ItemPropertyValue : v.item = i}
    /\ ret.op \in {"values_relevant_for", "values_obsolete_for"} =>
         /\ ret.pre = Tables
         /\ \A v \in Range(ret.rows) : v \in ItemPropertyValue /\ v.item = ret.a

\* obsolete values were returned for an item that also has defined values,
\* one of them for a definition of an ancestor of its category
C6_Witness ==
    /\ ret.op = "values_obsolete_for"
    /\ ~ret.raised
    /\ ret.rows # << >>
    /\ \E v \in ItemPropertyValue_filter_relevant_for(
                  ItemCategory, ItemCategoryProperty, Item, ItemPropertyValue, ret.a) :
          ItemCategoryProperty[v.property].category # Item[ret.a].category

-----------------------------------------------------------------------------
(* The path that owns the definitions visible to a category *)

\* root first, the category itself last
PathWith(tbl, c) == Append(RootPath(tbl, c), c)

Owner(q) == ItemCategoryProperty[q].category

-----------------------------------------------------------------------------
(* C9: propertiesVisibleTo(C) is returned root-first: every definition of  *)
(* an ancestor nearer the root precedes every definition of a deeper       *)
(* ancestor, and C's own definitions come last, whatever the order of      *)
(* creation and whatever reparents came before.                            *)
C9_PropertiesRootFirst ==
    ret.op = "properties_relevant_for" =>
        LET path == PathWith(ItemCategory, ret.a)
            Depth(q) == CHOOSE k \in 1..Len(path) : path[k] = Owner(q)
        IN  \A i, j \in DOMAIN ret.rows :
               Depth(ret.rows[i]) < Depth(ret.rows[j]) => i < j

-----------------------------------------------------------------------------
(* C10: as a set, propertiesVisibleTo(C) is exactly the definitions owned  *)
(* by C or by an ancestor of C; categories in different trees get disjoint *)
(* results, and a root without definitions of its own gets none.           *)
C10_PropertiesExact ==
    /\ \A c \in DOMAIN ItemCategory :
         LET visible == ItemCategoryProperty_filter_relevant_for(
                           ItemCategory, ItemCategoryProperty, c)
         IN  /\ visible = {q \in DOMAIN ItemCategoryProperty :
                              Owner(q) \in Range(PathWith(ItemCategory, c))}
             /\ \A d \in DOMAIN ItemCategory :
                  Range(PathWith(ItemCategory, c)) \cap Range(PathWith(ItemCategory, d)) = {}
                    => visible \cap ItemCategoryProperty_filter_relevant_for(
                                       ItemCategory, ItemCategoryProperty, d) = {}
             /\ (ItemCategory[c].parent = NULL
                   /\ \A q \in DOMAIN ItemCategoryProperty : Owner(q) # c)
                  => visible = {}
    /\ ret.op = "properties_relevant_for" =>
         /\ Range(ret.rows) = {q \in DOMAIN ItemCategoryProperty :
                                  Owner(q) \in Range(PathWith(ItemCategory, ret.a))}
         /\ Len(ret.rows) = Cardinality(Range(ret.rows))

\* a definition of an ancestor and one of the category itself were returned,
\* and not the one of a category off the path whose key text contains the
\* key text of a category on it
C10_Witness ==
    /\ ret.op = "properties_relevant_for"
    /\ \E q \in Range(ret.rows) : Owner(q) = ret.a
    /\ \E q \in Range(ret.rows) : Owner(q) # ret.a
    /\ \E q \in DOMAIN ItemCategoryProperty :
         /\ q \notin Range(ret.rows)
         /\ \E x \in Range(PathWith(ItemCategory, ret.a)) :
               Contains(Str(Owner(q)), Str(x))

-----------------------------------------------------------------------------
(* The stock left at an instant, read from the rows alone *)

\* the units of item reserved at instant t: the rents whose closed interval
\* [start, end] contains t
ReservedAt(item, t) ==
    SumAmounts({ri \in RentItem :
                   /\ ri.item = item
                   /\ Rent[ri.rent].start <= t
                   /\ t <= Rent[ri.rent].end})

\* the most units of item reserved at one instant of [start, end]
PeakReserved(item, start, end) ==
    LET at == {ReservedAt(item, t) : t \in start..end}
    IN  CHOOSE m \in at : \A n \in at : n <= m

Asked == ret.op = "get_available_amount"

-----------------------------------------------------------------------------
(* C4: for an item with amount > 0, availableAmount(item, windowStart,     *)
(* windowEnd) is the minimum, over the instants t of the closed window, of *)
(* item.amount minus the quantities of the reservations of the item whose  *)
(* closed interval [start, end] contains t.                                *)
C4_MinimumOverWindow ==
    (Asked /\ Item[ret.a].amount > 0) =>
        ret.result = Item[ret.a].amount - PeakReserved(ret.a, ret.start, ret.end)

-----------------------------------------------------------------------------
(* C5: availableAmount is not clamped at zero: when the reservations       *)
(* active at one instant of the window sum to more than item.amount, the   *)
(* result is the negative number item.amount minus that peak sum.          *)
C5_OverbookingNegative ==
    (Asked /\ Item[ret.a].amount > 0
           /\ PeakReserved(ret.a, ret.start, ret.end) > Item[ret.a].amount) =>
        /\ ret.result < 0
        /\ ret.result = Item[ret.a].amount - PeakReserved(ret.a, ret.start, ret.end)

-----------------------------------------------------------------------------
(* The consistency of a stored tree, for the callers that run at once *)

\* invariant (c): every lineage is the one its parent link calls for
LineageConsistentIn(tbl) ==
    \A c \in DOMAIN tbl :
       /\ tbl[c].parent # NULL => tbl[c].parent \in DOMAIN tbl
       /\ tbl[c].lineage = LineageOfParent(tbl, c)

\* following parent links from c ends at a category without parent
RECURSIVE Climbs(_, _, _)
Climbs(tbl, c, fuel) ==
    IF tbl[c].parent = NULL THEN TRUE
    ELSE IF fuel = 0 THEN FALSE
    ELSE Climbs(tbl, tbl[c].parent, fuel - 1)

ReachesRoot(tbl, c) == Climbs(tbl, c, Cardinality(DOMAIN tbl))

\* every writer has made its call and the call is over
AllDone == \A w \in Writers : inflight[w].pc = "done"

-----------------------------------------------------------------------------
(* C11: reparent is atomic towards concurrent observers: no state of the   *)
(* store that a reader can see has C's parent and lineage already changed  *)
(* while a descendant of C still carries a lineage built on C's old one;   *)
(* no committed write takes a lineage-consistent store to one that is not. *)
C11_ReparentAtomic ==
    [][LineageConsistentIn(ItemCategory) => LineageConsistentIn(ItemCategory')]_vars

-----------------------------------------------------------------------------
(* C12: two reparents on overlapping subtrees, their steps interleaved in  *)
(* any way, leave once both have finished a tree in which every lineage is *)
(* lineage(parent) + parent.id + "," and every category reaches a root by  *)
(* its parent links.                                                       *)
C12_ConcurrentReparentsConsistent ==
    AllDone =>
        /\ LineageConsistentIn(ItemCategory)
        /\ \A c \in DOMAIN ItemCategory : ReachesRoot(ItemCategory, c)

-----------------------------------------------------------------------------
(* C13: nothing is cached: on the first query after reparent(C, P) has     *)
(* completed, for an item whose category is C or a descendant of C,        *)
(* definedValues is exactly the item's values whose definition is owned by *)
(* a category on the new path from the root to the item's category, and    *)
(* every other value of the item, such as one owned by a former ancestor,  *)
(* is in obsoleteValues.                                                   *)
C13_NoCachedHierarchy ==
    [][(/\ ret.op = "update_parent" /\ ~ret.raised
        /\ ret'.op \in {"values_relevant_for", "values_obsolete_for"}
        /\ Item[ret'.a].category \in {ret.a} \cup ChildWalk(ItemCategory, ret.a)) =>
          LET i == ret'.a
              mine == {v \in ItemPropertyValue : v.item = i}
              onPath == {v \in mine :
                            Owner(v.property) \in
                                Range(PathWith(ItemCategory, Item[i].category))}
          IN  /\ ~ret'.raised
              /\ Len(ret'.rows) = Cardinality(Range(ret'.rows))
              /\ ret'.op = "values_relevant_for" => Range(ret'.rows) = onPath
              /\ ret'.op = "values_obsolete_for" => Range(ret'.rows) = mine \ onPath
    ]_vars

\* the obsolete values were asked for an item whose category was moved under
\* a category created after it; the value of a definition of a category off
\* the new path is among them, and a value of a definition of the item's own
\* category is still defined
C13_Witness ==
    /\ ret.op = "values_obsolete_for"
    /\ ~ret.raised
    /\ LET c == Item[ret.a].category
       IN  /\ ItemCategory[c].parent > c
           /\ \E v \in Range(ret.rows) :
                 Owner(v.property) \notin Range(PathWith(ItemCategory, c))
           /\ \E v \in ItemPropertyValue :
                 /\ v.item = ret.a
                 /\ Owner(v.property) = c
                 /\ v \notin Range(ret.rows)

-----------------------------------------------------------------------------
(* C14: for an item without a category, definedValues and obsoleteValues   *)
(* complete without error; definedValues is empty and obsoleteValues holds *)
(* every value attached to the item.                                       *)
C14_NoCategoryPartition ==
    (ret.op \in {"values_relevant_for", "values_obsolete_for"}
        /\ Item[ret.a].category = NULL) =>
          /\ ~ret.raised
          /\ ret.op = "values_relevant_for" => ret.rows = << >>
          /\ ret.op = "values_obsolete_for" =>
                Range(ret.rows) = {v \in ItemPropertyValue : v.item = ret.a}

-----------------------------------------------------------------------------
(* The reservations that count for a window, read from the rows alone *)

\* the rents that reference item and whose interval overlaps [start, end]
Overlapping(item, start, end) ==
    {r \in DOMAIN Rent :
        /\ Rent[r].start <= end
        /\ Rent[r].end >= start
        /\ \E ri \in RentItem : ri.rent = r /\ ri.item = item}

\* the rows of seq s that are in the set S, in the order of s
RECURSIVE Only(_, _)
Only(s, S) ==
    IF s = << >> THEN << >>
    ELSE IF Head(s) \in S THEN <<Head(s)>> \o Only(Tail(s), S)
    ELSE Only(Tail(s), S)

-----------------------------------------------------------------------------
(* C15: availableAmount depends only on the reservations that reference    *)
(* the item and overlap the window: without any it returns item.amount,    *)
(* and reservations wholly outside the window or of other items only never *)
(* change the result: it is what the overlapping reservations of the item  *)
(* alone give.                                                             *)
C15_OnlyOverlappingCount ==
    Asked =>
        LET i == ret.a
            R == Overlapping(i, ret.start, ret.end)
            rentsAlone == [r \in R |-> Rent[r]]
            rentitemsAlone == {ri \in RentItem : ri.item = i /\ ri.rent \in R}
        IN  /\ R = {} => ret.result = Item[i].amount
            /\ ret.result = get_available_amount(Item, rentsAlone, rentitemsAlone, i,
                                                 ret.start, ret.end, Only(ret.rows, R))

\* the availability was asked for a window that one reservation of the item
\* overlaps while another of the same item lies wholly outside it
C15_Witness ==
    /\ Asked
    /\ Item[ret.a].amount > 0
    /\ Overlapping(ret.a, ret.start, ret.end) # {}
    /\ \E ri \in RentItem :
          /\ ri.item = ret.a
          /\ (Rent[ri.rent].end < ret.start \/ Rent[ri.rent].start > ret.end)
    /\ ret.result < Item[ret.a].amount

-----------------------------------------------------------------------------
(* C16: availableAmount returns 0 whenever item.amount <= 0, for every     *)
(* window and every set of reservations, also overlapping ones of the item *)
(* for which the sweep would give a negative number.                       *)
C16_NoStockIsZero ==
    (Asked /\ Item[ret.a].amount <= 0) => ret.result = 0

\* the availability of an item without stock was asked for a window that a
\* reservation of the item overlaps
C16_Witness ==
    /\ Asked
    /\ Item[ret.a].amount <= 0
    /\ Overlapping(ret.a, ret.start, ret.end) # {}
    /\ ret.rows # << >>

-----------------------------------------------------------------------------
(* The stock left once every event of an instant has been applied *)

\* the units of item held by the rents R after all their events at instants
\* up to t: started by t and not ended by t
HeldAfter(item, R, t) ==
    SumAmounts({ri \in RentItem :
                   /\ ri.item = item
                   /\ ri.rent \in R
                   /\ Rent[ri.rent].start <= t
                   /\ t < Rent[ri.rent].end})

MinOf(S) == CHOOSE m \in S : \A n \in S : m <= n

-----------------------------------------------------------------------------
(* C17: when a +q event and a -q event fall at the same instant (one       *)
(* reservation ends exactly when another starts), both are applied before  *)
(* the running minimum is sampled: the result is the least stock left      *)
(* after all the events of an instant, never the value after the +q alone. *)
C17_TiesNetted ==
    (Asked /\ Item[ret.a].amount > 0 /\ ret.rows # << >>
           /\ \A r \in Range(ret.rows) : Rent[r].start < Rent[r].end) =>
        LET R == Range(ret.rows)
            instants == {Rent[r].start : r \in R} \cup {Rent[r].end : r \in R}
        IN  ret.result =
              MinOf({Item[ret.a].amount} \cup
                    {Item[ret.a].amount - HeldAfter(ret.a, R, t) : t \in instants})

-----------------------------------------------------------------------------
(* C18: a zero-length reservation (start = end) of quantity q that         *)
(* overlaps the window still lowers the result: for item.amount > 0 the    *)
(* value returned is at most item.amount - q, whatever other reservations  *)
(* are present.                                                            *)
C18_ZeroLengthCounts ==
    (Asked /\ Item[ret.a].amount > 0) =>
        \A r \in Overlapping(ret.a, ret.start, ret.end) :
           Rent[r].start = Rent[r].end =>
              ret.result <= Item[ret.a].amount - rent_amount(RentItem, ret.a, r)

\* the availability was asked with a zero-length reservation of the item in
\* the window, at the instant another reservation of the item ends
C18_Witness ==
    /\ Asked
    /\ Item[ret.a].amount > 0
    /\ \E r, o \in Overlapping(ret.a, ret.start, ret.end) :
          /\ Rent[r].start = Rent[r].end
          /\ Rent[o].start < Rent[o].end
          /\ Rent[o].end = Rent[r].start

-----------------------------------------------------------------------------
(* C19: availableAmount is a function of the item, the window and the set  *)
(* of reservation records: over the same stored state it returns the same  *)
(* integer whatever the order in which the store returns the overlapping   *)
(* reservations, also when events of different reservations share an       *)
(* instant.                                                                *)
C19_RowOrderIrrelevant ==
    Asked =>
        \A order \in RowOrders(Range(ret.rows)) :
           get_available_amount(Item, Rent, RentItem, ret.a, ret.start, ret.end, order)
             = ret.result

-----------------------------------------------------------------------------
(* C20: reparent(C, P) changes nothing outside C and C's subtree: every    *)
(* category that is neither C nor a descendant of C before the call, P and *)
(* P's ancestors among them, keeps its parent and lineage, every           *)
(* descendant of C keeps its parent link, and no category is created or    *)
(* deleted.                                                                *)
C20_ReparentFrame ==
    [][(ret'.op = "update_parent" /\ ~ret'.raised) =>
        LET C == ret'.a
            subtree == ChildWalk(ItemCategory, C)
        IN  /\ DOMAIN ItemCategory' = DOMAIN ItemCategory
            /\ \A x \in DOMAIN ItemCategory \ ({C} \cup subtree) :
                  ItemCategory'[x] = ItemCategory[x]
            /\ \A D \in subtree : ItemCategory'[D].parent = ItemCategory[D].parent
    ]_vars

\* a category with a child was moved under a category that has a parent,
\* while the lineage of a category outside its subtree holds a key whose
\* text ends with the moved category's key
C20_Witness ==
    /\ Reparented
    /\ ret.b # NULL
    /\ ItemCategory[ret.b].parent # NULL
    /\ ChildWalk(ItemCategory, ret.a) # {}
    /\ \E x \in DOMAIN ItemCategory \ ({ret.a} \cup ChildWalk(ItemCategory, ret.a)) :
          /\ Contains(ItemCategory[x].lineage, Str(ret.a) \o <<",">>)
          /\ ~Contains(ItemCategory[x].lineage, Padded(ret.a))

-----------------------------------------------------------------------------
(* C21: with start <= end for every reservation and every reserved         *)
(* quantity > 0, whenever item.amount > 0 and a reservation of the item    *)
(* overlaps the window, availableAmount is at most item.amount minus the   *)
(* largest single overlapping quantity, hence below item.amount; and it is *)
(* never more than item.amount.                                            *)
C21_BoundedByLargestReservation ==
    Asked =>
        /\ ret.result <= Item[ret.a].amount
        /\ (Item[ret.a].amount > 0 /\ Overlapping(ret.a, ret.start, ret.end) # {}) =>
              /\ \A r \in Overlapping(ret.a, ret.start, ret.end) :
                    ret.result <= Item[ret.a].amount - rent_amount(RentItem, ret.a, r)
              /\ ret.result < Item[ret.a].amount

\* the availability of a stocked item was asked for a window that two
\* reservations of different quantities overlap without overlapping each other
C21_Witness ==
    /\ Asked
    /\ Item[ret.a].amount > 0
    /\ \E r, o \in Overlapping(ret.a, ret.start, ret.end) :
          /\ rent_amount(RentItem, ret.a, r) < rent_amount(RentItem, ret.a, o)
          /\ Rent[r].end < Rent[o].start
          /\ ret.result = Item[ret.a].amount - rent_amount(RentItem, ret.a, o)

-----------------------------------------------------------------------------
(* C22: deleting a category deletes every descendant with it, so in every  *)
(* state reached by creations, reparents and deletions each id embedded in *)
(* a stored lineage and each parent reference names a category that still  *)
(* exists.                                                                 *)
C22_NoDanglingReference ==
    /\ \A c \in DOMAIN ItemCategory :
         /\ ItemCategory[c].parent # NULL => ItemCategory[c].parent \in DOMAIN ItemCategory
         /\ \A k \in CatIds :
               Contains(ItemCategory[c].lineage, Padded(k)) => k \in DOMAIN ItemCategory
    /\ ret.op = "delete" =>
         /\ ret.a \notin DOMAIN ItemCategory
         /\ filter_descendants(ItemCategory, ret.a) = {}

\* a category was deleted with a category below it, in a tree that reparents
\* had rearranged: a category under a parent created after it is left
C22_Witness ==
    /\ ret.op = "delete"
    /\ ret.b >= 2
    /\ \E c \in DOMAIN ItemCategory :
          /\ ItemCategory[c].parent # NULL
          /\ ItemCategory[c].parent > c

====
